---- MODULE Spec2Model ----
(***************************************************************************)
(* Model of the ingestion job (embed_and_store.py), of the Refresh action  *)
(* of the UI (chat_ceo.py), of the structured meeting index                *)
(* (meeting_indexer.py) and of retrieval (semantic_search.py,              *)
(* answer_with_rag.py).  Spec is the ingestion job, SpecMI the meeting     *)
(* index and its queries, SpecRAG the calls of the functions of retrieval, *)
(* prompt assembly and point merging.                                      *)
(*                                                                         *)
(* Representation choices:                                                 *)
(*  - an ISO date string "YYYY-MM-DD" is the tuple <<y, m, d>>; Python's    *)
(*    None for a date is the empty tuple <<>> (the code only tests dates   *)
(*    for truth and equality, and "date or ''" sorts None lowest);         *)
(*  - None for a name or a time of day is the string NoneStr;               *)
(*  - an embedding vector is represented by the chunk it was computed      *)
(*    from, <<filename, chunk_id>>;                                        *)
(*  - a file of parsed_data is a record of what the code reads out of its  *)
(*    text: the [FOLDER]/[FILE] headers, the chunker's output size, the    *)
(*    "Time & Date" header and the lines below it;                         *)
(*  - a datetime is <<y, m, d, H, M, S>>; a FAISS distance is an integer;  *)
(*    a text preview is its length; a string handed to the date resolver   *)
(*    is the record of the phrases and date shapes its patterns find.      *)
(***************************************************************************)
EXTENDS Integers, Sequences, FiniteSets, TLC

\* ------------------------------------------------------------------ bounds
\* the longest candidate list handed to rerank directly
MaxHits == 3

\* the longest chat history handed to ask_gpt
MaxHistory == 5

\* the longest section body handed to _lines_of_points directly
MaxBody == 3

\* largest identifier count one process may hand out before the model stops
\* starting new ingestion runs
MaxId == 3

\* --------------------------------------------------------- program constants
\* mutation of MaxAttempts: one retry too many
MaxAttemptsFive == 4 + 1

\* range(4) in get_embedding
MaxAttempts == 4

NoneStr == "<None>"
NoDate == <<>>

F_MEET == "2025-09-02_Meeting-Summary.txt"
F_NOTE == "notes.txt"
FileNames == {F_MEET, F_NOTE}
\* sorted(PARSED_DIR.iterdir()) / sorted(PARSED_DIR.glob("*.txt")): digits sort
\* before lower-case letters
SortedNames == <<F_MEET, F_NOTE>>

VARIABLES
    parsed_data,   \* parsed_data/*.txt : file name -> what the code reads from it
    index,         \* embed_and_store._index : sequence of [id, vec]
    metadata,      \* embed_and_store._metadata : id -> record
    next_id,       \* embed_and_store._next_id
    pc,            \* position of the process in embed_and_store.main
    todo,          \* chunks main() still has to embed, in loop order
    attempt,       \* provider calls get_embedding has made for the head of todo
    index_file,    \* embeddings/faiss.index on disk
    meta_file,     \* embeddings/metadata.pkl on disk
    cache,         \* parsed_data/_meeting_index.json on disk
    ret            \* the call made last on meeting_indexer and what it returned

vars == <<parsed_data, index, metadata, next_id, pc, todo, attempt,
          index_file, meta_file, cache, ret>>

\* ------------------------------------------------------------------ helpers
Range(s) == {s[i] : i \in 1..Len(s)}

RECURSIVE SeqOfSet(_, _)
\* the members of set S in the order of sequence ord
SeqOfSet(ord, S) ==
    IF ord = <<>> THEN <<>>
    ELSE IF Head(ord) \in S THEN <<Head(ord)>> \o SeqOfSet(Tail(ord), S)
         ELSE SeqOfSet(Tail(ord), S)

\* state of a file that does not exist / was truncated by open(..., "wb")
Absent == [state |-> "absent"]
Truncated == [state |-> "truncated"]
Written(c) == [state |-> "written", content |-> c]

\* ------------------------------------------------- embed_and_store: helpers
\* date_from_filename: the canonical name YYYY-MM-DD_Meeting-Summary gives the
\* ISO date, any other name None
date_from_filename(fname) ==
    IF fname \in {"2025-09-02_Meeting-Summary.txt", "2025-09-02_Meeting-Summary.docx"}
    THEN <<2025, 9, 2>>
    ELSE NoDate

\* the chunks main() embeds for one file: simple_chunks' output, or the single
\* fallback chunk when it returns nothing
ChunksOf(name, c) ==
    IF c.nsplit = 0 THEN <<0>> ELSE [i \in 1..c.nsplit |-> i - 1]

\* the record main() stores for chunk ch of file name
MetaOf(name, c, ch) ==
    [filename |-> name,
     chunk_id |-> ch,
     folder |-> c.folder,
     meeting_date |-> date_from_filename(IF c.file_hdr # "" THEN c.file_hdr ELSE name)]

RECURSIVE WorkList(_, _)
\* the (file, chunk) pairs of main()'s two nested loops, in loop order; files
\* whose text is empty are skipped
WorkList(names, pd) ==
    IF names = <<>> THEN <<>>
    ELSE LET n == Head(names)
             c == pd[n]
             chs == ChunksOf(n, c)
         IN (IF c.empty THEN <<>>
             ELSE [i \in 1..Len(chs) |-> <<n, chs[i]>>])
            \o WorkList(Tail(names), pd)

\* what the ingestion job can find in one file: an empty text, a meeting summary
\* short enough for the chunker to return nothing (one fallback chunk), a note
\* the chunker splits in two chunks
NoMeeting == [hdr |-> [kind |-> "none"], lines |-> <<>>, words |-> {}]

EmbedContents ==
    { [folder |-> "", file_hdr |-> "", empty |-> TRUE, nsplit |-> 0,
       meeting |-> NoMeeting],
      [folder |-> "Meetings", file_hdr |-> "2025-09-02_Meeting-Summary.docx",
       empty |-> FALSE, nsplit |-> 0, meeting |-> NoMeeting] }
    \cup { [folder |-> "HR", file_hdr |-> "notes.docx", empty |-> FALSE,
            nsplit |-> 2, meeting |-> NoMeeting] }

\* every directory content over the given file contents
Corpora(contents) ==
    UNION { [D -> contents] : D \in SUBSET FileNames }

\* file_parser.main: write_parsed_output overwrites or creates files with a
\* non-empty text (the two header lines); it deletes nothing
Rewrites(pd, contents) ==
    { q \in Corpora({c \in contents : ~c.empty} \cup {pd[n] : n \in DOMAIN pd}) :
        /\ DOMAIN pd \subseteq DOMAIN q
        /\ \A n \in DOMAIN pd : q[n] = pd[n] \/ ~q[n].empty }

\* ------------------------------------------------ embed_and_store: the job
\* module load: lines 52-57
EmbedInit ==
    /\ index = <<>>
    /\ metadata = <<>>
    /\ next_id = 0
    /\ pc = "idle"
    /\ todo = <<>>
    /\ attempt = 0

\* add_to_index: IndexIDMap2.add_with_ids appends the pair
add_to_index(idx, vec, vid) == Append(idx, [id |-> vid, vec |-> vec])

\* mutation of StoreMeta: the identifier is advanced before the record is stored
StoreMetaAfterIncrement(md, vid, rec) ==
    [i \in DOMAIN md \cup {vid + 1} |-> IF i = vid + 1 THEN rec ELSE md[i]]

\* _metadata[_next_id] = {...}: a dict assignment, which replaces a record
\* already stored under the key
StoreMeta(md, vid, rec) ==
    [i \in DOMAIN md \cup {vid} |-> IF i = vid THEN rec ELSE md[i]]

\* where main() starts once parsed_data has been listed
MainEntry(pd) ==
    IF DOMAIN pd = {}
    THEN /\ pc' = "done"
         /\ todo' = <<>>
    ELSE /\ pc' = "embed"
         /\ todo' = WorkList(SeqOfSet(SortedNames, DOMAIN pd), pd)

\* mutation of Refresh: main() restarts the identifiers at 0 on every run
RefreshResetsId ==
    /\ pc \in {"idle", "done"}
    /\ \E q \in Rewrites(parsed_data, EmbedContents) :
          /\ Len(WorkList(SeqOfSet(SortedNames, DOMAIN q), q)) <= MaxId
          /\ parsed_data' = q
          /\ MainEntry(q)
    /\ attempt' = 0
    /\ next_id' = 0
    /\ UNCHANGED <<index, metadata, index_file, meta_file, cache, ret>>

\* chat_ceo "Run File Parser + Embedder": file_parser.main() then
\* embed_and_store.main() up to the first embedding call
Refresh ==
    /\ pc \in {"idle", "done"}
    /\ \E q \in Rewrites(parsed_data, EmbedContents) :
          /\ next_id + Len(WorkList(SeqOfSet(SortedNames, DOMAIN q), q)) <= MaxId
          /\ parsed_data' = q
          /\ MainEntry(q)
    /\ attempt' = 0
    /\ UNCHANGED <<index, metadata, next_id, index_file, meta_file, cache, ret>>

\* get_embedding: one provider call that returns a vector of the right shape;
\* main() then adds the vector and its metadata and takes the next identifier
EmbedOk ==
    /\ pc = "embed"
    /\ todo # <<>>
    /\ attempt < MaxAttempts
    /\ LET ch == Head(todo) IN
          /\ index' = add_to_index(index, ch, next_id)
          /\ metadata' = StoreMeta(metadata, next_id,
                                   MetaOf(ch[1], parsed_data[ch[1]], ch[2]))
    /\ next_id' = next_id + 1
    /\ todo' = Tail(todo)
    /\ attempt' = 0
    /\ UNCHANGED <<parsed_data, pc, index_file, meta_file, cache, ret>>

\* get_embedding: one provider call that raises or returns a vector of the
\* wrong shape; the attempt is used up
EmbedFail ==
    /\ pc = "embed"
    /\ todo # <<>>
    /\ attempt < MaxAttempts
    /\ \E kind \in {"provider error", "unexpected shape"} : attempt' = attempt + 1
    /\ UNCHANGED <<parsed_data, index, metadata, next_id, pc, todo,
                   index_file, meta_file, cache, ret>>

\* get_embedding returns None after the last attempt; main() skips the chunk
SkipChunk ==
    /\ pc = "embed"
    /\ todo # <<>>
    /\ attempt >= MaxAttempts
    /\ todo' = Tail(todo)
    /\ attempt' = 0
    /\ UNCHANGED <<parsed_data, index, metadata, next_id, pc,
                   index_file, meta_file, cache, ret>>

\* faiss.write_index(_index, INDEX_PATH)
WriteIndex ==
    /\ pc = "embed"
    /\ todo = <<>>
    /\ index_file' = Written(index)
    /\ pc' = "open_meta"
    /\ UNCHANGED <<parsed_data, index, metadata, next_id, todo, attempt,
                   meta_file, cache, ret>>

\* open(META_PATH, "wb") truncates the file
OpenMeta ==
    /\ pc = "open_meta"
    /\ meta_file' = Truncated
    /\ pc' = "dump_meta"
    /\ UNCHANGED <<parsed_data, index, metadata, next_id, todo, attempt,
                   index_file, cache, ret>>

\* pickle.dump(_metadata, f); the report and the prints follow and main returns
DumpMeta ==
    /\ pc = "dump_meta"
    /\ meta_file' = Written(metadata)
    /\ pc' = "done"
    /\ UNCHANGED <<parsed_data, index, metadata, next_id, todo, attempt,
                   index_file, cache, ret>>

\* the process dies and a new one imports the module again; a process killed
\* inside faiss.write_index leaves the file it was writing incomplete
Crash ==
    /\ \E inWrite \in BOOLEAN :
          IF inWrite /\ pc = "embed" /\ todo = <<>>
          THEN index_file' = Truncated
          ELSE index_file' = index_file
    /\ index' = <<>>
    /\ metadata' = <<>>
    /\ next_id' = 0
    /\ pc' = "idle"
    /\ todo' = <<>>
    /\ attempt' = 0
    /\ UNCHANGED <<parsed_data, meta_file, cache, ret>>

NoCall == [op |-> "none"]

Init ==
    /\ parsed_data \in Corpora(EmbedContents)
    /\ EmbedInit
    /\ index_file = Absent
    /\ meta_file = Absent
    /\ cache = Absent
    /\ ret = NoCall

Next ==
    \/ Refresh
    \/ EmbedOk
    \/ EmbedFail
    \/ SkipChunk
    \/ WriteIndex
    \/ OpenMeta
    \/ DumpMeta
    \/ Crash

Spec == Init /\ [][Next]_vars

\* ------------------------------------------------- meeting_indexer: parsing
\* a line of the text below the header band: its leading numeral ("4" is
\* <<4>>, "4.1" is <<4, 1>>, none is <<>>), whether a "." follows the numeral,
\* the names before the dash, and the text after them
Line(num, dot, names, text) ==
    [num |-> num, dot |-> dot, names |-> names, text |-> text]

\* a section heading such as "4. Next Steps"
Heading(n, title) == Line(<<n>>, TRUE, <<>>, title)

RECURSIVE JoinStr(_, _)
\* sep.join(strs)
JoinStr(strs, sep) ==
    IF strs = <<>> THEN ""
    ELSE IF Len(strs) = 1 THEN strs[1]
    ELSE strs[1] \o sep \o JoinStr(Tail(strs), sep)

\* the characters of a line
Render(l) ==
    (IF l.num = <<>> THEN ""
     ELSE JoinStr([i \in 1..Len(l.num) |-> ToString(l.num[i])], ".")
          \o (IF l.dot THEN "." ELSE "") \o " ")
    \o (IF l.names = <<>> THEN "" ELSE JoinStr(l.names, " and ") \o " - ")
    \o l.text

\* the lookahead ^\s*\d+\.\s*\S of _extract_section: a numeral, a ".", and
\* something after it ("5. Decisions" and "4.1 Sai - ..." alike)
StopLine(l) ==
    \/ Len(l.num) >= 2
    \/ Len(l.num) = 1 /\ l.dot /\ (l.names # <<>> \/ l.text # "")

\* ^\s*\d+\.\s*<title>\s*\n
IsHeading(l, title) ==
    Len(l.num) = 1 /\ l.dot /\ l.names = <<>> /\ l.text = title

\* _extract_section: the lines between the first heading of the title that has
\* a stop line below it and that stop line; the sentinel "0." has nothing after
\* its "." and so never stops a section
extract_section(lines, title) ==
    LET stops(i) == { j \in (i + 1)..Len(lines) : StopLine(lines[j]) }
        starts == { i \in 1..Len(lines) :
                       IsHeading(lines[i], title) /\ stops(i) # {} }
    IN IF starts = {} THEN <<>>
       ELSE LET i == CHOOSE x \in starts : \A y \in starts : x <= y
                j == CHOOSE x \in stops(i) : \A y \in stops(i) : x <= y
            IN SubSeq(lines, i + 1, j - 1)

RECURSIVE MergePoints(_, _, _)
\* the loop of _lines_of_points: a line that starts with a numeral and
\* whitespace opens a point, any other line is appended to the open one; cur is
\* <<>> for the empty string
MergePoints(lines, merged, cur) ==
    IF lines = <<>> THEN merged \o cur
    ELSE LET ln == Head(lines) IN
         IF ln.num # <<>> /\ ~ln.dot
         THEN MergePoints(Tail(lines), merged \o cur, <<ln>>)
         ELSE MergePoints(Tail(lines), merged,
                          << IF cur = <<>>
                             THEN Line(<<>>, FALSE, <<>>, Render(ln))
                             ELSE [cur[1] EXCEPT !.text = @ \o " " \o Render(ln)] >>)

\* _lines_of_points: lines that are blank are dropped first
lines_of_points(section_body) ==
    MergePoints(SelectSeq(section_body, LAMBDA l : Render(l) # ""), <<>>, <<>>)

RECURSIVE split_names(_)
\* _split_names: the names in order, each once (no name of the model contains
\* "and", a comma or a dash)
split_names(names) ==
    IF names = <<>> THEN <<>>
    ELSE LET r == split_names(SubSeq(names, 1, Len(names) - 1))
             n == names[Len(names)]
         IN IF n \in Range(r) THEN r ELSE Append(r, n)

\* _extract_actions_from_points: assignees, task and raw of every point
extract_actions_from_points(points) ==
    [i \in 1..Len(points) |->
        LET pt == points[i] IN
        IF pt.num # <<>> /\ ~pt.dot /\ pt.names # <<>> /\ pt.text # ""
        THEN [assignees |-> split_names(pt.names), task |-> pt.text,
              raw |-> Render(pt)]
        ELSE [assignees |-> <<>>, task |-> Render(pt), raw |-> Render(pt)]]

\* parse_meeting_text, lines 123-127: the actions of the two sections
Points(m) ==
    extract_actions_from_points(
        lines_of_points(extract_section(m.lines, "Next Steps"))
        \o lines_of_points(extract_section(m.lines, "Action Items")))

\* the names a task names after "with", "to", "for" or "by"
TaskNames(task) == IF task = "Sync with Ed" THEN {"Ed"} ELSE {}

\* _find_names_anywhere on the text of a line: its capitalised words
CapWords(l) ==
    Range(l.names)
    \cup (IF l.text = "Update onboarding doc" THEN {"Update"}
          ELSE IF l.text = "Sync with Ed" THEN {"Sync", "Ed"}
          ELSE IF l.text = "Next Steps" THEN {"Next", "Steps"}
          ELSE IF l.text = "Action Items" THEN {"Action", "Items"}
          ELSE IF l.text = "Decisions" THEN {"Decisions"}
          ELSE {})

\* the "Time & Date" header _parse_time_date finds in the first ten lines:
\*   none   : no such line
\*   full   : the date matches a format with a year
\*   noyear : the date matches "%B %d"
\*   bad    : the date matches none of DATE_PATTERNS
HDR_NONE == [kind |-> "none"]
HDR_NOYEAR == [kind |-> "noyear", time |-> "4:30 AM", md |-> <<9, 2>>]
HDR_FULL1 == [kind |-> "full", time |-> "10:00 AM", ymd |-> <<2025, 9, 1>>]
HDR_FULL2 == [kind |-> "full", time |-> "4:30 PM", ymd |-> <<2025, 9, 2>>]
HDR_FULL3 == [kind |-> "full", time |-> "10:00 PM", ymd |-> <<2025, 9, 2>>]
HDR_BAD == [kind |-> "bad", time |-> "9:00 PM"]

\* _date_from_filename: the first YYYY-MM-DD in the name
DateFromFilename(name) ==
    IF name = F_MEET THEN <<2025, 9, 2>> ELSE NoDate

\* mutation of MeetingDate: the year of a year-less header date is not taken
\* from the filename
MeetingDateKeepsDefaultYear(hdr, file_date) ==
    LET fromHeader ==
            IF hdr.kind = "full" THEN hdr.ymd
            ELSE IF hdr.kind = "noyear" THEN <<1900, hdr.md[1], hdr.md[2]>>
            ELSE NoDate
    IN IF fromHeader = NoDate /\ file_date # NoDate THEN file_date ELSE fromHeader

\* parse_meeting_text, lines 108-121: the date of the Meeting Record
MeetingDate(hdr, file_date) ==
    LET fromHeader ==
            IF hdr.kind = "full" THEN hdr.ymd
            ELSE IF hdr.kind = "noyear"
                 THEN IF file_date # NoDate
                      THEN <<file_date[1], hdr.md[1], hdr.md[2]>>
                      ELSE <<1900, hdr.md[1], hdr.md[2]>>
                 ELSE NoDate
    IN IF fromHeader = NoDate /\ file_date # NoDate THEN file_date ELSE fromHeader

RECURSIVE NormalizeActions(_)
\* parse_meeting_text, lines 145-151: one ActionItem per assignee, or one with
\* no assignee
NormalizeActions(actions) ==
    IF actions = <<>> THEN <<>>
    ELSE LET a == Head(actions) IN
         (IF a.assignees # <<>>
          THEN [i \in 1..Len(a.assignees) |->
                   [assignee |-> a.assignees[i], task |-> a.task, raw |-> a.raw,
                    section |-> "Next/Action"]]
          ELSE << [assignee |-> NoneStr, task |-> a.task, raw |-> a.raw,
                   section |-> "Next/Action"] >>)
         \o NormalizeActions(Tail(actions))

\* parse_meeting_text, lines 129-143: the attendee set
Attendees(m) ==
    UNION { Range(Points(m)[i].assignees) \cup TaskNames(Points(m)[i].task)
            : i \in 1..Len(Points(m)) }
    \cup UNION { CapWords(m.lines[i]) : i \in 1..Len(m.lines) }
    \cup m.words

\* parse_meeting_text: the Meeting Record of file name
parse_meeting_text(c, name) ==
    [file |-> name,
     time |-> IF c.meeting.hdr.kind = "none" THEN NoneStr ELSE c.meeting.hdr.time,
     date |-> MeetingDate(c.meeting.hdr, DateFromFilename(name)),
     attendees |-> Attendees(c.meeting),
     actions |-> NormalizeActions(Points(c.meeting))]

\* --------------------------------------------- meeting_indexer: build_index
\* people.setdefault(name, []).append(rec)
AppendRec(people, name, rec) ==
    [n \in DOMAIN people \cup {name} |->
        IF n = name
        THEN (IF n \in DOMAIN people THEN Append(people[n], rec) ELSE <<rec>>)
        ELSE people[n]]

RECURSIVE AddActionsKeepsNone(_, _, _)
\* mutation of AddActions: the test "if not act['assignee']: continue" is missing
AddActionsKeepsNone(people, mt, acts) ==
    IF acts = <<>> THEN people
    ELSE LET act == Head(acts) IN
         AddActionsKeepsNone(
             AppendRec(people, act.assignee,
                       [file |-> mt.file, date |-> mt.date, time |-> mt.time,
                        task |-> act.task, section |-> act.section]),
             mt, Tail(acts))

RECURSIVE AddActions(_, _, _)
\* build_index, lines 174-178: the inner loop over one meeting's actions
AddActions(people, mt, acts) ==
    IF acts = <<>> THEN people
    ELSE LET act == Head(acts) IN
         IF act.assignee = NoneStr
         THEN AddActions(people, mt, Tail(acts))
         ELSE AddActions(
                 AppendRec(people, act.assignee,
                           [file |-> mt.file, date |-> mt.date, time |-> mt.time,
                            task |-> act.task, section |-> act.section]),
                 mt, Tail(acts))

RECURSIVE AddMeetings(_, _)
\* build_index, lines 172-178: the outer loop over the meetings
AddMeetings(people, mts) ==
    IF mts = <<>> THEN people
    ELSE AddMeetings(AddActions(people, Head(mts), Head(mts).actions), Tail(mts))

\* build_index, lines 162-170: the Meeting Records of parsed_data/*.txt in
\* sorted order
Meetings(pd) ==
    LET names == SeqOfSet(SortedNames, DOMAIN pd)
    IN [i \in 1..Len(names) |-> parse_meeting_text(pd[names[i]], names[i])]

\* build_index: the index it returns and writes to INDEX_JSON
build_index(pd) ==
    [meetings |-> Meetings(pd), people_index |-> AddMeetings(<<>>, Meetings(pd))]

\* ------------------------------------------------- meeting_indexer: queries
RECURSIVE LexLess(_, _)
\* Python's < on two strings, given as their sequences of code points
LexLess(a, b) ==
    IF b = <<>> THEN FALSE
    ELSE IF a = <<>> THEN TRUE
    ELSE IF Head(a) # Head(b) THEN Head(a) < Head(b)
    ELSE LexLess(Tail(a), Tail(b))

\* the code points of the time-of-day strings of the model; None sorts as ""
TimeChars(t) ==
    IF t = "4:30 AM" THEN <<52, 58, 51, 48, 32, 65, 77>>
    ELSE IF t = "4:30 PM" THEN <<52, 58, 51, 48, 32, 80, 77>>
    ELSE IF t = "9:00 PM" THEN <<57, 58, 48, 48, 32, 80, 77>>
    ELSE IF t = "10:00 AM" THEN <<49, 48, 58, 48, 48, 32, 65, 77>>
    ELSE IF t = "10:00 PM" THEN <<49, 48, 58, 48, 48, 32, 80, 77>>
    ELSE <<>>

\* (r.get("date") or "", r.get("time") or "") compared as Python compares
\* tuples of strings; the ISO date is zero-padded, so its fields compare as
\* its characters do
KeyLess(r1, r2) ==
    \/ LexLess(r1.date, r2.date)
    \/ r1.date = r2.date /\ LexLess(TimeChars(r1.time), TimeChars(r2.time))

RECURSIVE InsertDesc(_, _)
\* place r behind every row whose key is not smaller than its own
InsertDesc(rows, r) ==
    IF rows = <<>> THEN <<r>>
    ELSE IF KeyLess(Head(rows), r) THEN <<r>> \o rows
    ELSE <<Head(rows)>> \o InsertDesc(Tail(rows), r)

RECURSIVE SortDesc(_, _)
\* rows.sort(key=..., reverse=True): stable, rows of equal key keep their order
SortDesc(done, rows) ==
    IF rows = <<>> THEN done
    ELSE SortDesc(InsertDesc(done, Head(rows)), Tail(rows))

\* mutation of SelectRows: the date filter keeps every row
SelectRowsKeepsAll(rows, date) == rows

\* [r for r in rows if r.get("date") == date]
SelectRows(rows, date) == SelectSeq(rows, LAMBDA r : r.date = date)

\* find_tasks_by_person on a loaded index
TasksByPerson(idx, name, date) ==
    LET rows == IF name \in DOMAIN idx.people_index
                THEN idx.people_index[name] ELSE <<>>
        kept == IF date # NoDate THEN SelectRows(rows, date) ELSE rows
    IN SortDesc(<<>>, kept)

\* mutation of AttendeesOn: the test "date and" is dropped, so that without a
\* date only the undated meetings are kept
AttendeesOnDateOnly(idx, date) ==
    UNION { idx.meetings[i].attendees :
              i \in { j \in 1..Len(idx.meetings) : idx.meetings[j].date = date } }

\* list_attendees on a loaded index (the sorted list is given as its set)
AttendeesOn(idx, date) ==
    UNION { idx.meetings[i].attendees :
              i \in { j \in 1..Len(idx.meetings) :
                        ~(date # NoDate /\ idx.meetings[j].date # date) } }

\* find_meeting_dates on a loaded index
MeetingDatesOn(idx) ==
    { idx.meetings[i].date : i \in 1..Len(idx.meetings) } \ {NoDate}

\* load_index: the cached index when the file exists, else build_index()
load_index(c, pd) ==
    IF c.state = "absent" THEN build_index(pd) ELSE c.content

\* --------------------------------------------- meeting_indexer: the machine
QueryNames == {"Sai", "May", "Ed"}
QueryDates == {NoDate, <<2025, 9, 1>>, <<2025, 9, 2>>, <<1900, 9, 2>>}

HeaderWords == {"Time", "Date", "September"}

\* numbered points as the summaries write them under a section heading
L_SAI == Line(<<1>>, FALSE, <<"Sai">>, "Update onboarding doc")
L_BOTH == Line(<<2>>, FALSE, <<"May", "Sai">>, "Sync with Ed")
L_NOBODY == Line(<<3>>, FALSE, <<>>, "review the budget")
L_WRAPPED == Line(<<>>, FALSE, <<>>, "and share it")
L_DOTTED == Line(<<4, 1>>, FALSE, <<"Sai">>, "Update onboarding doc")

\* a summary with header "Time & Date: 4:30 AM - September 02" and the point
\* "4.1 Sai - Update onboarding doc" under "4. Next Steps"
DottedSummary ==
    [hdr |-> HDR_NOYEAR, words |-> HeaderWords,
     lines |-> <<Heading(4, "Next Steps"), L_DOTTED, Heading(5, "Decisions")>>]

\* the meeting texts a file of parsed_data can hold
MeetingTexts ==
    { [hdr |-> HDR_NONE, lines |-> <<>>, words |-> {}],
      DottedSummary,
      [hdr |-> HDR_FULL1, words |-> HeaderWords \cup {"Ravi"},
       lines |-> <<Heading(4, "Next Steps"), L_BOTH, L_NOBODY,
                   Heading(5, "Decisions")>>],
      [hdr |-> HDR_BAD, words |-> HeaderWords,
       lines |-> <<Heading(4, "Next Steps"), L_SAI, L_BOTH,
                   Heading(5, "Decisions")>>],
      [hdr |-> HDR_FULL2, words |-> HeaderWords,
       lines |-> <<Heading(3, "Action Items"), L_SAI, Heading(4, "Next Steps"),
                   L_SAI, Heading(5, "Decisions")>>],
      [hdr |-> HDR_FULL3, words |-> HeaderWords,
       lines |-> <<Heading(4, "Next Steps"), L_SAI, L_WRAPPED,
                   Heading(5, "Decisions")>>] }

MeetContents ==
    { [folder |-> "Meetings", file_hdr |-> "", empty |-> FALSE, nsplit |-> 0,
       meeting |-> m] : m \in MeetingTexts }

Returned(op, name, date, value) ==
    [op |-> op, name |-> name, date |-> date, raised |-> FALSE, value |-> value]
Raised(op, name, date) ==
    [op |-> op, name |-> name, date |-> date, raised |-> TRUE, value |-> <<>>]

QueryOps == {"find_tasks_by_person", "list_attendees", "find_meeting_dates"}

\* what each query computes from the index load_index gave it
Answer(idx, op, name, date) ==
    CASE op = "find_tasks_by_person" -> TasksByPerson(idx, name, date)
      [] op = "list_attendees" -> AttendeesOn(idx, date)
      [] op = "find_meeting_dates" -> MeetingDatesOn(idx)

\* a call of one of the three queries: json.loads raises on a file that is
\* not a complete JSON document; a missing file is built and written first
Query(op, name, date) ==
    /\ IF cache.state = "truncated"
       THEN /\ ret' = Raised(op, name, date)
            /\ cache' = cache
       ELSE LET idx == load_index(cache, parsed_data) IN
            /\ cache' = Written(idx)
            /\ ret' = Returned(op, name, date, Answer(idx, op, name, date))
    /\ UNCHANGED <<parsed_data, index, metadata, next_id, pc, todo, attempt,
                   index_file, meta_file>>

find_tasks_by_person ==
    \E name \in QueryNames, date \in QueryDates :
        Query("find_tasks_by_person", name, date)

list_attendees ==
    \E date \in QueryDates : Query("list_attendees", NoneStr, date)

find_meeting_dates == Query("find_meeting_dates", NoneStr, NoDate)

\* build_index called directly: the whole index is rebuilt and written
BuildIndex ==
    /\ cache' = Written(build_index(parsed_data))
    /\ ret' = Returned("build_index", NoneStr, NoDate, <<>>)
    /\ UNCHANGED <<parsed_data, index, metadata, next_id, pc, todo, attempt,
                   index_file, meta_file>>

\* the process is killed inside INDEX_JSON.write_text, called by build_index
\* directly or through load_index: the file is left incomplete
BuildIndexKilled ==
    /\ cache # Truncated
    /\ cache' = Truncated
    /\ ret' = NoCall
    /\ UNCHANGED <<parsed_data, index, metadata, next_id, pc, todo, attempt,
                   index_file, meta_file>>

\* the Refresh action as meeting_indexer sees it: file_parser.main rewrites
\* files of parsed_data; neither it nor embed_and_store.main, which follows,
\* reads or writes INDEX_JSON
RefreshCorpus ==
    /\ \E q \in Rewrites(parsed_data, MeetContents) :
          /\ q # parsed_data
          /\ parsed_data' = q
    /\ ret' = NoCall
    /\ UNCHANGED <<index, metadata, next_id, pc, todo, attempt,
                   index_file, meta_file, cache>>

InitMI ==
    /\ parsed_data \in Corpora(MeetContents)
    /\ EmbedInit
    /\ index_file = Absent
    /\ meta_file = Absent
    /\ cache = Absent
    /\ ret = NoCall

NextMI ==
    \/ find_tasks_by_person
    \/ list_attendees
    \/ find_meeting_dates
    \/ BuildIndex
    \/ BuildIndexKilled
    \/ RefreshCorpus

SpecMI == InitMI /\ [][NextMI]_vars

\* ------------------------------------------------- semantic_search: ranking
IsLeap(y) == (y % 4 = 0 /\ y % 100 # 0) \/ y % 400 = 0

DaysIn(y, m) ==
    IF m = 2 THEN (IF IsLeap(y) THEN 29 ELSE 28)
    ELSE IF m \in {4, 6, 9, 11} THEN 30 ELSE 31

\* the year, month and day datetime accepts
IsRealDate(d) ==
    /\ d # NoDate
    /\ d[1] \in 1..9999 /\ d[2] \in 1..12 /\ d[3] \in 1..DaysIn(d[1], d[2])

\* _parse_iso: None for None and for a string strptime rejects (%Y wants four
\* digits)
parse_iso(s) == IF IsRealDate(s) /\ s[1] >= 1000 THEN s ELSE NoDate

RECURSIVE DaysBeforeMonth(_, _)
DaysBeforeMonth(y, m) ==
    IF m = 1 THEN 0 ELSE DaysBeforeMonth(y, m - 1) + DaysIn(y, m - 1)

\* date.toordinal(): 0001-01-01 is day 1
ToOrdinal(d) ==
    LET y1 == d[1] - 1 IN
    y1 * 365 + (y1 \div 4) - (y1 \div 100) + (y1 \div 400)
    + DaysBeforeMonth(d[1], d[2]) + d[3]

\* str(folder).lower() == "meetings"
IsMeetingsFolder(folder) == folder \in {"Meetings", "meetings", "MEETINGS"}

\* sorted(rows, key=..., reverse=True) with keys[i] the key of rows[i]: larger
\* keys first, rows of equal key in their original order
SortedReverse(rows, keys) ==
    LET rank(j) == Cardinality({ i \in 1..Len(rows) :
                       keys[i] > keys[j] \/ (keys[i] = keys[j] /\ i < j) }) + 1
    IN [p \in 1..Len(rows) |-> rows[CHOOSE j \in 1..Len(rows) : rank(j) = p]]

\* sorted(rows, key=...): smaller keys first, stable
SortedPlain(rows, keys) ==
    LET rank(j) == Cardinality({ i \in 1..Len(rows) :
                       keys[i] < keys[j] \/ (keys[i] = keys[j] /\ i < j) }) + 1
    IN [p \in 1..Len(rows) |-> rows[CHOOSE j \in 1..Len(rows) : rank(j) = p]]

\* rerank's score of one (id, dist, meta) item
score(item, prefer_meetings, prefer_recent) ==
    LET folder_bonus == IF prefer_meetings /\ IsMeetingsFolder(item.meta.folder)
                        THEN 1000 ELSE 0
        d == parse_iso(item.meta.meeting_date)
        date_bonus == IF prefer_recent /\ d # NoDate THEN ToOrdinal(d) ELSE 0
    IN folder_bonus * 1000000 + date_bonus * 10 + (0 - item.dist)

\* mutation of rerank: reverse=True is dropped
rerankAscending(results, prefer_meetings, prefer_recent) ==
    SortedPlain(results, [i \in 1..Len(results) |->
                             score(results[i], prefer_meetings, prefer_recent)])

\* rerank
rerank(results, prefer_meetings, prefer_recent) ==
    SortedReverse(results, [i \in 1..Len(results) |->
                               score(results[i], prefer_meetings, prefer_recent)])

\* ------------------------------------------------ semantic_search: retrieval
\* the record main() stores for a chunk, with the preview given by its length
StoredChunk(fname, cid, folder, date, preview) ==
    [filename |-> fname, chunk_id |-> cid, folder |-> folder,
     meeting_date |-> date, text_preview |-> preview]

\* the records of a corpus of five files as main() numbers them; the date of
\* the last one is the string "999-01-05" strftime gives for the year 0999
StoredChunks ==
    << StoredChunk("2025-09-02_Meeting-Summary.txt", 0, "Meetings", <<2025, 9, 2>>, 1000),
       StoredChunk("notes.txt", 0, "HR", NoDate, 1000),
       StoredChunk("notes.txt", 1, "HR", NoDate, 744),
       StoredChunk("2025-09-01_Meeting-Summary.txt", 0, "Meetings", <<2025, 9, 1>>, 400),
       StoredChunk("2025-08-15_Meeting-Summary.txt", 0, "Meetings", <<2025, 8, 15>>, 400),
       StoredChunk("0999-01-05_Meeting-Summary.txt", 0, "Meetings", <<999, 1, 5>>, 400) >>

\* faiss.index and metadata.pkl after a run of main() that stored the first n
\* of them
StoredIndex(n) ==
    [i \in 1..n |-> [id |-> i - 1,
                     vec |-> <<StoredChunks[i].filename, StoredChunks[i].chunk_id>>]]
StoredMetadata(n) == [i \in 0..(n - 1) |-> StoredChunks[i + 1]]

\* metadata.get(int(idx), {}): the record, or a dict without any key
EmptyMeta == [folder |-> "", meeting_date |-> NoDate]
MetaGet(md, vid) == IF vid \in DOMAIN md THEN md[vid] ELSE EmptyMeta

\* index.search(qvec, n): the n nearest vectors by ascending distance, dist[id]
\* being the distance of the query to vector id; of two vectors at the same
\* distance either may come first (lowFirst); missing results are -1 and are
\* skipped by search
FaissSearch(idx, dist, lowFirst, n) ==
    LET keys == [i \in 1..Len(idx) |->
                    dist[idx[i].id] * 100
                    + (IF lowFirst THEN idx[i].id ELSE 99 - idx[i].id)]
        ranked == SortedPlain(idx, keys)
    IN SubSeq(ranked, 1, IF Len(idx) < n THEN Len(idx) ELSE n)

Max(a, b) == IF a > b THEN a ELSE b

\* search, lines 66-73, on the loaded index and metadata
search(idx, md, dist, lowFirst, k) ==
    LET found == FaissSearch(idx, dist, lowFirst, Max(k, 5))
    IN [i \in 1..Len(found) |->
           [id |-> found[i].id, dist |-> dist[found[i].id],
            meta |-> MetaGet(md, found[i].id)]]

\* reranked[:k]
Prefix(rows, k) == SubSeq(rows, 1, IF Len(rows) < k THEN Len(rows) ELSE k)

\* search_meetings
search_meetings(idx, md, dist, lowFirst, k, prefer_recent) ==
    Prefix(rerank(search(idx, md, dist, lowFirst, Max(k, 50)), TRUE, prefer_recent), k)

\* a <= b on datetimes <<year, month, day, hour, minute, second>>
DtLeq(a, b) == a = b \/ LexLess(a, b)

\* _parse_iso as a datetime: midnight of the date
Midnight(d) == d \o <<0, 0, 0>>

\* mutation of filter_by_date_range: the upper end of the window is not tested
filter_from_start(results, start, end) ==
    SelectSeq(results, LAMBDA r :
        LET d == parse_iso(r.meta.meeting_date) IN
        d # NoDate /\ DtLeq(start, Midnight(d)))

\* filter_by_date_range
filter_by_date_range(results, start, end) ==
    SelectSeq(results, LAMBDA r :
        LET d == parse_iso(r.meta.meeting_date) IN
        d # NoDate /\ DtLeq(start, Midnight(d)) /\ DtLeq(Midnight(d), end))

\* rerank_for_recency with favor_recent at its default
rerank_for_recency(results) ==
    SortedReverse(results, [i \in 1..Len(results) |->
        LET d == parse_iso(results[i].meta.meeting_date)
            rec == IF d # NoDate THEN ToOrdinal(d) ELSE 0
        IN rec * 10 + (0 - results[i].dist)])

\* search_in_date_window
search_in_date_window(idx, md, dist, lowFirst, start, end, k) ==
    LET pool == search(idx, md, dist, lowFirst, Max(k, 200))
        windowed == filter_by_date_range(pool, start, end)
    IN IF windowed = <<>> THEN <<>> ELSE Prefix(rerank_for_recency(windowed), k)

\* ------------------------------------------------------ answer_with_rag
MAX_CONTEXT_CHARS == 8000

\* len(snippet) for one hit: the source line, the preview and two newlines
SnippetLen(meta) ==
    LET fname == IF "filename" \in DOMAIN meta THEN meta.filename ELSE "unknown.txt"
        cid == IF "chunk_id" \in DOMAIN meta THEN meta.chunk_id ELSE 0
        text == IF "text_preview" \in DOMAIN meta THEN meta.text_preview ELSE 0
    IN Len("[SOURCE: " \o fname \o " | CHUNK: " \o ToString(cid) \o "]") + 1
       + text + 1

RECURSIVE TakeSnippets(_, _, _)
\* the loop of build_context: the indexes of the hits whose snippets are kept
TakeSnippets(topk, i, total) ==
    IF i > Len(topk) THEN <<>>
    ELSE IF total + SnippetLen(topk[i].meta) > MAX_CONTEXT_CHARS THEN <<>>
    ELSE <<i>> \o TakeSnippets(topk, i + 1, total + SnippetLen(topk[i].meta))

RECURSIVE SumLen(_, _)
SumLen(topk, parts) ==
    IF parts = <<>> THEN 0
    ELSE SnippetLen(topk[Head(parts)].meta) + SumLen(topk, Tail(parts))

\* build_context: the kept hits and the length of "\n".join(parts)
build_context(topk) ==
    LET parts == TakeSnippets(topk, 1, 0)
    IN [parts |-> parts,
        length |-> SumLen(topk, parts)
                   + (IF parts = <<>> THEN 0 ELSE Len(parts) - 1)]

\* the day before d
PrevDay(d) ==
    IF d[3] > 1 THEN <<d[1], d[2], d[3] - 1>>
    ELSE IF d[2] > 1 THEN <<d[1], d[2] - 1, DaysIn(d[1], d[2] - 1)>>
    ELSE <<d[1] - 1, 12, 31>>

RECURSIVE MinusDays(_, _)
\* d - timedelta(days=n)
MinusDays(d, n) == IF n = 0 THEN d ELSE MinusDays(PrevDay(d), n - 1)

\* date.weekday(): Monday is 0
Weekday(d) == (ToOrdinal(d) + 6) % 7

\* the whole day d as (start, end)
DayWindow(first, last) == << first \o <<0, 0, 0>>, last \o <<23, 59, 59>> >>

\* what a query string holds for the resolver: the phrases "last week" and
\* "last month", the numbers of the first YYYY-MM-DD shape, and the numbers of
\* the first "<month name> D, YYYY" shape (NoDate when there is none)
QueryText(last_week, last_month, iso, textual) ==
    [last_week |-> last_week, last_month |-> last_month, iso |-> iso,
     textual |-> textual]

NoWindow == <<>>

\* resolve_date_window_from_query with datetime.now() on day today: datetime()
\* and strptime raise ValueError for numbers that are no date
resolve_date_window_from_query(q, today) ==
    IF q.last_week
    THEN LET end == MinusDays(today, Weekday(today) + 1)
         IN [raised |-> FALSE, win |-> DayWindow(MinusDays(end, 6), end)]
    ELSE IF q.last_month
    THEN LET last_prev == PrevDay(<<today[1], today[2], 1>>)
         IN [raised |-> FALSE,
             win |-> DayWindow(<<last_prev[1], last_prev[2], 1>>, last_prev)]
    ELSE IF q.iso # NoDate
    THEN IF IsRealDate(q.iso)
         THEN [raised |-> FALSE, win |-> DayWindow(q.iso, q.iso)]
         ELSE [raised |-> TRUE, win |-> NoWindow]
    ELSE IF q.textual # NoDate
    THEN IF IsRealDate(q.textual)
         THEN [raised |-> FALSE, win |-> DayWindow(q.textual, q.textual)]
         ELSE [raised |-> TRUE, win |-> NoWindow]
    ELSE [raised |-> FALSE, win |-> NoWindow]

\* the system instruction of ask_gpt
SYSTEM_PROMPT ==
    "You are a sharp Virtual CEO assistant. "
    \o "If sources are provided, answer using them and cite by filename and chunk like [2025-09-02_Meeting-Summary.txt#2]. "
    \o "If no sources are provided, use your general knowledge."

\* rows[-n:]
LastN(rows, n) ==
    IF Len(rows) <= n THEN rows ELSE SubSeq(rows, Len(rows) - n + 1, Len(rows))

\* mutation of memoize_trim: one message fewer is kept
memoize_trim_five(messages) == LastN(messages, 4 + 1)

\* memoize_trim: messages[-6:]
memoize_trim(messages) == LastN(messages, 6)

\* lines 112-116: a history turn as the message appended for it
FormatTurn(msg) ==
    [role |-> msg.role,
     content |-> IF msg.timestamp # ""
                 THEN "[" \o msg.timestamp \o "] " \o msg.content
                 ELSE msg.content]

\* lines 118-124: the message of the current query
QueryMessage(query, context) ==
    [role |-> "user",
     content |-> IF context # ""
                 THEN "Query:\n" \o query \o "\n\nSources:\n" \o context
                 ELSE query]

\* ask_gpt: the messages handed to chat.completions.create
ask_gpt(query, context, chat_history) ==
    LET recent == LastN(chat_history, 4)
        messages == << [role |-> "system", content |-> SYSTEM_PROMPT] >>
                    \o [i \in 1..Len(recent) |-> FormatTurn(recent[i])]
                    \o << QueryMessage(query, context) >>
    IN memoize_trim(messages)

\* answer, lines 156-167, on a loaded store: the retrieval it chooses, the hits
\* and the context handed to ask_gpt
answer(idx, md, q, today, dist, lowFirst, k, restrict_to_meetings) ==
    LET r == resolve_date_window_from_query(q, today) IN
    IF r.raised
    THEN [raised |-> TRUE, route |-> "none", hits |-> <<>>,
          context |-> build_context(<<>>)]
    ELSE LET route == IF r.win # NoWindow THEN "search_in_date_window"
                      ELSE IF restrict_to_meetings THEN "search_meetings"
                      ELSE "search"
             hits == IF r.win # NoWindow
                     THEN search_in_date_window(idx, md, dist, lowFirst,
                                                r.win[1], r.win[2], k)
                     ELSE IF restrict_to_meetings
                     THEN search_meetings(idx, md, dist, lowFirst, k, TRUE)
                     ELSE search(idx, md, dist, lowFirst, k)
         IN [raised |-> FALSE, route |-> route, hits |-> hits,
             context |-> build_context(hits)]

\* ------------------------------------------------- retrieval: the machine
\* the distances of a query to the six vectors
Dists == { [i \in 0..5 |-> (i * a + b) % 5] : a \in {1, 3}, b \in 0..4 }

Ks == {1, 2, 7}
StoreSizes == {0, 3, 6}
Todays == { <<2025, 9, 10>>, <<2025, 3, 1>>, <<2025, 1, 5>> }

QueryTexts ==
    { QueryText(FALSE, FALSE, NoDate, NoDate),
      QueryText(TRUE, FALSE, NoDate, NoDate),
      QueryText(FALSE, TRUE, NoDate, NoDate),
      QueryText(TRUE, FALSE, <<2025, 13, 1>>, NoDate),
      QueryText(FALSE, FALSE, <<2025, 9, 2>>, NoDate),
      QueryText(FALSE, FALSE, <<2025, 13, 1>>, NoDate),
      QueryText(FALSE, FALSE, NoDate, <<2025, 8, 15>>),
      QueryText(FALSE, FALSE, NoDate, <<2025, 2, 30>>) }

\* the windows the resolver gives
Windows ==
    { resolve_date_window_from_query(q, t).win : q \in QueryTexts, t \in Todays }
    \ {NoWindow}

\* metadata records a caller can hand to rerank: stored ones, and one that
\* declares a validity window that has ended
WindowedChunk ==
    [filename |-> "policy.txt", chunk_id |-> 0, folder |-> "Meetings",
     meeting_date |-> <<2025, 9, 1>>, text_preview |-> 400,
     valid_from |-> <<2019, 1, 1>>, valid_to |-> <<2020, 1, 1>>]
CandidateMetas ==
    << StoredChunks[1], StoredChunks[2], StoredChunks[3], StoredChunks[4],
       WindowedChunk >>
CandidateDists == {0, 15}

\* the result lists of at most MaxHits distinct candidates
CandidateLists ==
    UNION { { [i \in 1..n |-> [id |-> ids[i], dist |-> ds[i],
                               meta |-> CandidateMetas[ids[i]]]] :
                ids \in { f \in [1..n -> 1..Len(CandidateMetas)] :
                            \A i, j \in 1..n : i # j => f[i] # f[j] },
                ds \in [1..n -> CandidateDists] } : n \in 1..MaxHits }

\* the hit lists handed to build_context: up to nine chunks of notes.txt
ContextLists ==
    UNION { { [i \in 1..n |-> [id |-> c[i], dist |-> 0, meta |-> StoredChunks[c[i] + 1]]] :
                c \in [1..n -> {1, 2}] } : n \in 0..9 }

ragUnchanged == <<parsed_data, index, metadata, next_id, pc, todo, attempt, cache>>

\* load_resources succeeds
Loaded == index_file.state = "written" /\ meta_file.state = "written"

\* a call into the retrieval layer starts when the caller holds no result
Idle == ret = NoCall

Rerank ==
    /\ Idle
    /\ \E results \in CandidateLists, pm \in BOOLEAN, pr \in BOOLEAN :
          ret' = [op |-> "rerank", results |-> results, prefer_meetings |-> pm,
                  prefer_recent |-> pr, raised |-> FALSE,
                  value |-> rerank(results, pm, pr)]
    /\ UNCHANGED <<ragUnchanged, index_file, meta_file>>

Search ==
    /\ Idle
    /\ \E k \in Ks, dist \in Dists, lowFirst \in BOOLEAN :
          ret' = [op |-> "search", k |-> k, dist |-> dist,
                  raised |-> ~Loaded,
                  value |-> IF Loaded
                            THEN search(index_file.content, meta_file.content,
                                        dist, lowFirst, k)
                            ELSE <<>>]
    /\ UNCHANGED <<ragUnchanged, index_file, meta_file>>

SearchMeetings ==
    /\ Idle
    /\ \E k \in Ks, dist \in Dists, lowFirst \in BOOLEAN, pr \in BOOLEAN :
          ret' = [op |-> "search_meetings", k |-> k, prefer_recent |-> pr,
                  raised |-> ~Loaded,
                  value |-> IF Loaded
                            THEN search_meetings(index_file.content,
                                     meta_file.content, dist, lowFirst, k, pr)
                            ELSE <<>>]
    /\ UNCHANGED <<ragUnchanged, index_file, meta_file>>

SearchInDateWindow ==
    /\ Idle
    /\ \E k \in Ks, dist \in Dists, lowFirst \in BOOLEAN, w \in Windows :
          ret' = [op |-> "search_in_date_window", k |-> k, start |-> w[1],
                  end |-> w[2], raised |-> ~Loaded,
                  value |-> IF Loaded
                            THEN search_in_date_window(index_file.content,
                                     meta_file.content, dist, lowFirst,
                                     w[1], w[2], k)
                            ELSE <<>>]
    /\ UNCHANGED <<ragUnchanged, index_file, meta_file>>

ResolveDateWindow ==
    /\ Idle
    /\ \E q \in QueryTexts, today \in Todays :
          LET r == resolve_date_window_from_query(q, today) IN
          ret' = [op |-> "resolve_date_window_from_query", query |-> q,
                  today |-> today, raised |-> r.raised, value |-> r.win]
    /\ UNCHANGED <<ragUnchanged, index_file, meta_file>>

BuildContext ==
    /\ Idle
    /\ \E topk \in ContextLists :
          ret' = [op |-> "build_context", topk |-> topk, raised |-> FALSE,
                  value |-> build_context(topk)]
    /\ UNCHANGED <<ragUnchanged, index_file, meta_file>>

AnswerQuery ==
    /\ Idle
    /\ \E q \in QueryTexts, today \in Todays, k \in Ks, dist \in Dists,
          lowFirst \in BOOLEAN, restrict \in BOOLEAN :
          LET a == IF Loaded \/ resolve_date_window_from_query(q, today).raised
                   THEN answer(IF Loaded THEN index_file.content ELSE <<>>,
                               IF Loaded THEN meta_file.content ELSE <<>>,
                               q, today, dist, lowFirst, k, restrict)
                   ELSE [raised |-> TRUE, route |-> "none", hits |-> <<>>,
                         context |-> build_context(<<>>)]
          IN ret' = [op |-> "answer", query |-> q, today |-> today, k |-> k,
                     restrict_to_meetings |-> restrict, raised |-> a.raised,
                     value |-> [route |-> a.route, hits |-> a.hits,
                                context |-> a.context]]
    /\ UNCHANGED <<ragUnchanged, index_file, meta_file>>

\* the chat histories of at most MaxHistory turns: turn i says "m<i>", by the
\* user or the assistant, all with a timestamp or all without
Histories ==
    UNION { { [i \in 1..n |-> [role |-> roles[i],
                               content |-> "m" \o ToString(i),
                               timestamp |-> IF stamped THEN "2025-09-02 10:00"
                                             ELSE ""]] :
                roles \in [1..n -> {"user", "assistant"}],
                stamped \in BOOLEAN } : n \in 0..MaxHistory }

Contexts == {"", "[SOURCE: notes.txt | CHUNK: 0]\nabc\n"}

AskGpt ==
    /\ Idle
    /\ \E query \in {"who attended?"}, context \in Contexts,
          chat_history \in Histories :
          ret' = [op |-> "ask_gpt", query |-> query, context |-> context,
                  chat_history |-> chat_history, raised |-> FALSE,
                  value |-> ask_gpt(query, context, chat_history)]
    /\ UNCHANGED <<ragUnchanged, index_file, meta_file>>

\* the lines a section body is made of: numbered bullets, continuation lines
\* and a blank line
L_MORE == Line(<<>>, FALSE, <<>>, "by Friday")
L_BLANK == Line(<<>>, FALSE, <<>>, "")
BodyLines == <<L_SAI, L_BOTH, L_DOTTED, L_WRAPPED, L_MORE, L_BLANK>>

\* the section bodies of at most MaxBody lines
SectionBodies ==
    UNION { { [i \in 1..n |-> BodyLines[c[i]]] : c \in [1..n -> 1..Len(BodyLines)] } :
            n \in 0..MaxBody }

LinesOfPoints ==
    /\ Idle
    /\ \E body \in SectionBodies :
          ret' = [op |-> "lines_of_points", body |-> body, raised |-> FALSE,
                  value |-> lines_of_points(body)]
    /\ UNCHANGED <<ragUnchanged, index_file, meta_file>>

\* the caller has used the result (chat_ceo shows the reply)
ResultUsed ==
    /\ ~Idle
    /\ ret' = NoCall
    /\ UNCHANGED <<ragUnchanged, index_file, meta_file>>

\* a complete run of embed_and_store.main over another corpus replaces both
\* files
StoreRewritten ==
    /\ Idle
    /\ \E n \in StoreSizes :
          /\ index_file' = Written(StoredIndex(n))
          /\ meta_file' = Written(StoredMetadata(n))
          /\ index_file' # index_file
    /\ UNCHANGED <<ragUnchanged, ret>>

InitRAG ==
    /\ parsed_data = <<>>
    /\ EmbedInit
    /\ index_file = Absent
    /\ meta_file = Absent
    /\ cache = Absent
    /\ ret = NoCall

NextRAG ==
    \/ Rerank
    \/ Search
    \/ SearchMeetings
    \/ SearchInDateWindow
    \/ ResolveDateWindow
    \/ BuildContext
    \/ AnswerQuery
    \/ AskGpt
    \/ LinesOfPoints
    \/ ResultUsed
    \/ StoreRewritten

SpecRAG == InitRAG /\ [][NextRAG]_vars

\* ------------------------------------------------------------ ingestion claims
IndexIds(idx) == {idx[i].id : i \in 1..Len(idx)}
IndexVecs(idx) == {idx[i].vec : i \in 1..Len(idx)}
CorpusChunks(pd) == Range(WorkList(SeqOfSet(SortedNames, DOMAIN pd), pd))

\* C1: at every chunk boundary of an ingestion run the identifiers held by the
\* vector index are exactly the keys of the metadata map, no identifier is held
\* twice, and the record under an identifier describes the chunk of its vector
C1_IndexMatchesMetadata ==
    /\ IndexIds(index) = DOMAIN metadata
    /\ Cardinality(IndexIds(index)) = Len(index)
    /\ \A i \in 1..Len(index) :
          index[i].vec = <<metadata[index[i].id].filename, metadata[index[i].id].chunk_id>>

\* a run in which a chunk was dropped and a later one was added
C1_Witness ==
    /\ pc = "embed"
    /\ <<F_NOTE, 1>> \in IndexVecs(index)
    /\ <<F_NOTE, 0>> \notin IndexVecs(index)
    /\ Len(index) >= 2

\* the chunks a persisted artifact holds, one per entry
PersistedVecs(f) ==
    IF f.state # "written" THEN <<>>
    ELSE [i \in 1..Len(f.content) |-> f.content[i].vec]

PersistedKeys(f) ==
    IF f.state # "written" THEN {}
    ELSE {<<f.content[i].filename, f.content[i].chunk_id>> : i \in DOMAIN f.content}

\* C2: when an ingestion run has completed, the persisted index and metadata
\* hold chunks of the corpus that run read, each at most once: nothing of an
\* earlier run survives
C2_RebuildReplaces ==
    pc = "done" =>
        /\ Range(PersistedVecs(index_file)) \subseteq CorpusChunks(parsed_data)
        /\ Cardinality(Range(PersistedVecs(index_file))) = Len(PersistedVecs(index_file))
        /\ PersistedKeys(meta_file) \subseteq CorpusChunks(parsed_data)
        /\ meta_file.state = "written" =>
              Cardinality(PersistedKeys(meta_file)) = Cardinality(DOMAIN meta_file.content)

\* the two artifacts are of the same run: both missing, or both complete with
\* the same identifiers for the same chunks
PairMatches ==
    \/ index_file = Absent /\ meta_file = Absent
    \/ /\ index_file.state = "written"
       /\ meta_file.state = "written"
       /\ IndexIds(index_file.content) = DOMAIN meta_file.content
       /\ \A i \in 1..Len(index_file.content) :
             LET e == index_file.content[i] IN
                e.vec = <<meta_file.content[e.id].filename, meta_file.content[e.id].chunk_id>>

\* C3: nothing is written to either artifact while chunks are still to be
\* processed, and whenever the process is not inside a run (before the first
\* run or after a crash at any step) the two artifacts are a matching pair
C3_CrashConsistent ==
    /\ [](pc = "idle" => PairMatches)
    /\ [][pc = "embed" /\ todo # <<>> => UNCHANGED <<index_file, meta_file>>]_vars

\* C4: get_embedding never makes a fifth provider call for a chunk; when the
\* fourth has failed the chunk is dropped without a vector, a metadata record or
\* an identifier, the run goes on with the next chunk, and a run that has
\* returned has persisted the index and the metadata it built
C4_BoundedRetryThenSkip ==
    /\ [](attempt <= 4)
    /\ [](pc = "done" /\ DOMAIN parsed_data # {} =>
             index_file = Written(index) /\ meta_file = Written(metadata))
    /\ [][pc = "embed" /\ attempt = 4 /\ pc' # "idle" =>
             /\ UNCHANGED <<index, metadata, next_id>>
             /\ todo' = Tail(todo)
             /\ pc' = "embed"
             /\ attempt' = 0]_vars

\* a completed run that dropped a chunk and persisted a later one
C4_Witness ==
    /\ pc = "done"
    /\ index_file = Written(index)
    /\ <<F_NOTE, 0>> \in CorpusChunks(parsed_data)
    /\ <<F_NOTE, 0>> \notin IndexVecs(index)
    /\ <<F_NOTE, 1>> \in IndexVecs(index)

\* C5: within one process identifiers are handed out in strictly increasing
\* order, one per added vector, and a metadata record once written is never
\* replaced, also across repeated ingestion runs
C5_IdsNeverReused ==
    /\ [](\A i, j \in 1..Len(index) : i < j => index[i].id < index[j].id)
    /\ [][pc' # "idle" =>
             /\ \A i \in DOMAIN metadata :
                   i \in DOMAIN metadata' /\ metadata'[i] = metadata[i]
             /\ index' # index =>
                   /\ Len(index') = Len(index) + 1
                   /\ index'[Len(index')].id = next_id
                   /\ next_id' = next_id + 1
                   /\ \A i \in 1..Len(index) : index'[i] = index[i] /\ index[i].id < next_id]_vars

\* the same chunk embedded by two runs of one process, under two identifiers
C5_Witness ==
    \E i, j \in 1..Len(index) :
        i < j /\ index[i].vec = index[j].vec /\ index[i].id < index[j].id

\* -------------------------------------------------------- meeting index claims
\* C6: a query answers from the corpus as it is when the query is made: what it
\* returns is what an index rebuilt from the current parsed_data gives
C6_AnswersFromCurrentCorpus ==
    ret.op \in QueryOps /\ ~ret.raised =>
        ret.value = Answer(build_index(parsed_data), ret.op, ret.name, ret.date)

\* C7: a query never fails on the state of the cache file: whatever the file
\* was, the query returns and a complete index is on disk afterwards
C7_LoadIndexAlwaysUsable ==
    ret.op \in QueryOps => ~ret.raised /\ cache.state = "written"

\* C8: find_tasks_by_person with a date returns only records of that date, each
\* from a Meeting Record of the index that has that date
C8_TasksMatchDate ==
    ret.op = "find_tasks_by_person" /\ ~ret.raised /\ ret.date # NoDate =>
        \A i \in 1..Len(ret.value) :
            /\ ret.value[i].date = ret.date
            /\ \E j \in 1..Len(cache.content.meetings) :
                  /\ cache.content.meetings[j].file = ret.value[i].file
                  /\ cache.content.meetings[j].date = ret.date

\* a dated call that returned records while the person also has records of a
\* meeting without date
C8_Witness ==
    /\ ret.op = "find_tasks_by_person" /\ ~ret.raised /\ ret.date # NoDate
    /\ ret.value # <<>>
    /\ \E r \in Range(cache.content.people_index[ret.name]) : r.date = NoDate

AllAttendees(idx) == UNION { idx.meetings[i].attendees : i \in 1..Len(idx.meetings) }

\* C9: on every index, list_attendees(date) is a subset of list_attendees(None)
\* for every date, and list_attendees(None) is the union of the attendee sets
\* of all meetings
C9_AttendeesSubset ==
    cache.state = "written" =>
        /\ \A d \in QueryDates :
              AttendeesOn(cache.content, d) \subseteq AttendeesOn(cache.content, NoDate)
        /\ AttendeesOn(cache.content, NoDate) = AllAttendees(cache.content)
        /\ ret.op = "list_attendees" /\ ~ret.raised =>
              ret.value \subseteq AllAttendees(cache.content)

\* a dated call that returned some, and not all, of the attendees of the index,
\* which also holds an undated meeting
C9_Witness ==
    /\ ret.op = "list_attendees" /\ ~ret.raised /\ ret.date # NoDate
    /\ ret.value # {}
    /\ ret.value # AttendeesOn(cache.content, NoDate)
    /\ \E j \in 1..Len(cache.content.meetings) : cache.content.meetings[j].date = NoDate

\* the (meeting, action) positions of an index
ActionSlots(idx) ==
    UNION { { <<j, k>> : k \in 1..Len(idx.meetings[j].actions) }
            : j \in 1..Len(idx.meetings) }

\* the Person Index entry an ActionItem projects to
EntryOf(idx, slot) ==
    LET mt == idx.meetings[slot[1]]
        act == mt.actions[slot[2]]
    IN [file |-> mt.file, date |-> mt.date, time |-> mt.time, task |-> act.task,
        section |-> act.section]

PersonIndexIsProjection(idx) ==
    /\ DOMAIN idx.people_index =
          { idx.meetings[s[1]].actions[s[2]].assignee : s \in ActionSlots(idx) } \ {NoneStr}
    /\ \A n \in DOMAIN idx.people_index :
          LET mine == { s \in ActionSlots(idx) :
                          idx.meetings[s[1]].actions[s[2]].assignee = n }
          IN /\ Len(idx.people_index[n]) = Cardinality(mine)
             /\ \A e \in Range(idx.people_index[n]) :
                   Cardinality({ i \in 1..Len(idx.people_index[n]) : idx.people_index[n][i] = e })
                   = Cardinality({ s \in mine : EntryOf(idx, s) = e })

\* the points of a file that name nobody are all among the meeting's actions
UnassignedKept(idx, pd) ==
    \A j \in 1..Len(idx.meetings) :
        LET mt == idx.meetings[j]
            pts == Points(pd[mt.file].meeting)
        IN Cardinality({ k \in 1..Len(mt.actions) : mt.actions[k].assignee = NoneStr })
           = Cardinality({ k \in 1..Len(pts) : pts[k].assignees = <<>> })

\* C10: in every index build_index wrote, people_index[name] holds exactly one
\* entry per ActionItem assigned to name and nothing else, ActionItems without
\* assignee stay in their meeting and are under no person, and a query never
\* changes an index that is on disk
C10_PersonIndexIsProjection ==
    /\ [](cache.state = "written" => PersonIndexIsProjection(cache.content))
    /\ [](ret.op = "build_index" => UnassignedKept(cache.content, parsed_data))
    /\ [][cache.state = "written" /\ ret'.op \in QueryOps => cache' = cache]_vars

\* an index with an unassigned ActionItem, a person holding the same task twice
\* from one meeting, and a query answered from it
C10_Witness ==
    /\ cache.state = "written"
    /\ ret.op \in QueryOps /\ ~ret.raised
    /\ \E s \in ActionSlots(cache.content) :
          cache.content.meetings[s[1]].actions[s[2]].assignee = NoneStr
    /\ "Sai" \in DOMAIN cache.content.people_index
    /\ \E i, k \in 1..Len(cache.content.people_index["Sai"]) :
          i < k /\ cache.content.people_index["Sai"][i] = cache.content.people_index["Sai"][k]

\* minutes after midnight of a time-of-day string; a record without a time
\* counts as earlier than any time
TimeOfDay(t) ==
    IF t = "4:30 AM" THEN 270
    ELSE IF t = "10:00 AM" THEN 600
    ELSE IF t = "4:30 PM" THEN 990
    ELSE IF t = "9:00 PM" THEN 1260
    ELSE IF t = "10:00 PM" THEN 1320
    ELSE 0 - 1

\* r1 is of an earlier (meeting date, time of day) than r2
EarlierMeeting(r1, r2) ==
    \/ LexLess(r1.date, r2.date)
    \/ r1.date = r2.date /\ TimeOfDay(r1.time) < TimeOfDay(r2.time)

\* C11: the records find_tasks_by_person returns are ordered most recent first
\* by (meeting date, time of day): no record comes before one of a later
\* meeting
C11_MostRecentFirst ==
    ret.op = "find_tasks_by_person" /\ ~ret.raised =>
        \A i, j \in 1..Len(ret.value) :
            i < j => ~EarlierMeeting(ret.value[i], ret.value[j])

\* C19: with 2025-09-02_Meeting-Summary.txt, holding the header "Time & Date:
\* 4:30 AM - September 02" and the Next Steps point "4.1 Sai - Update
\* onboarding doc", as the only file, the index built from it dates the meeting
\* 2025-09-02 and find_tasks_by_person("Sai", "2025-09-02") returns exactly one
\* record, of task "Update onboarding doc"
C19_DottedPointIsIndexed ==
    /\ DOMAIN parsed_data = {F_MEET}
    /\ parsed_data[F_MEET].meeting = DottedSummary
    /\ cache = Written(build_index(parsed_data))
    /\ ret.op = "find_tasks_by_person" /\ ~ret.raised
    /\ ret.name = "Sai" /\ ret.date = <<2025, 9, 2>>
    => /\ cache.content.meetings[1].date = <<2025, 9, 2>>
       /\ Len(ret.value) = 1
       /\ ret.value[1].task = "Update onboarding doc"

\* the date a Meeting Record of the header and the filename date must carry
FollowsDateRule(date, hdr, file_date) ==
    /\ hdr.kind = "full" => date = hdr.ymd
    /\ hdr.kind = "noyear" /\ file_date # NoDate =>
           date = <<file_date[1], hdr.md[1], hdr.md[2]>>
    /\ hdr.kind \in {"none", "bad"} => date = file_date
    /\ date = NoDate => hdr.kind # "full" /\ file_date = NoDate

\* C20: every Meeting Record build_index makes carries the date of its header
\* when that has a year, the header's month and day with the filename's year
\* when the header has none and the filename has a date, the filename date when
\* there is no header date or it does not parse, and no date only when neither
\* the header nor the filename gives a full one
C20_DateResolution ==
    ret.op = "build_index" =>
        \A i \in 1..Len(cache.content.meetings) :
            LET m == cache.content.meetings[i] IN
            FollowsDateRule(m.date, parsed_data[m.file].meeting.hdr,
                            IF m.file = F_MEET THEN <<2025, 9, 2>> ELSE NoDate)

\* an index just built from a file whose year-less header took the year of the
\* filename and a file that gives no date at all
C20_Witness ==
    /\ ret.op = "build_index"
    /\ \E i, j \in 1..Len(cache.content.meetings) :
          LET m == cache.content.meetings[i]
              n == cache.content.meetings[j] IN
          /\ parsed_data[m.file].meeting.hdr.kind = "noyear"
          /\ m.date = <<2025, 9, 2>>
          /\ parsed_data[n.file].meeting.hdr.kind = "bad"
          /\ n.date = NoDate

\* ----------------------------------------------------------- retrieval claims
\* the query holds a date shape that is no date, and no relative phrase
InvalidDateShape(q) ==
    /\ ~q.last_week /\ ~q.last_month
    /\ \/ q.iso # NoDate /\ ~IsRealDate(q.iso)
       \/ q.iso = NoDate /\ q.textual # NoDate /\ ~IsRealDate(q.textual)

\* C12: resolve_date_window_from_query never raises; for a date shape that is
\* no real date it returns None, and answer() then retrieves without a date
\* filter
C12_ResolverNeverRaises ==
    /\ ret.op = "resolve_date_window_from_query" =>
          /\ ~ret.raised
          /\ InvalidDateShape(ret.query) => ret.value = NoWindow
    /\ ret.op = "answer" /\ Loaded /\ InvalidDateShape(ret.query) =>
          /\ ~ret.raised
          /\ ret.value.route \in {"search", "search_meetings"}

\* every boost term of the rerank call is zero for every candidate
BoostsZero(r) ==
    /\ r.prefer_meetings =>
          \A i \in 1..Len(r.results) : ~IsMeetingsFolder(r.results[i].meta.folder)
    /\ r.prefer_recent =>
          \A i \in 1..Len(r.results) : r.results[i].meta.meeting_date = NoDate

AscendingDistance(rows) ==
    \A i, j \in 1..Len(rows) : i < j => rows[i].dist <= rows[j].dist

\* C13: when every boost term is zero for every candidate, rerank returns the
\* candidates, all of them, in ascending order of distance
C13_ZeroBoostIsDistanceOrder ==
    ret.op = "rerank" /\ BoostsZero(ret) =>
        /\ AscendingDistance(ret.value)
        /\ Len(ret.value) = Len(ret.results)
        /\ Range(ret.value) = Range(ret.results)

\* a rerank call with prefer_meetings on, no Meetings chunk among the
\* candidates, and the candidates handed over in descending distance
C13_Witness ==
    /\ ret.op = "rerank" /\ BoostsZero(ret) /\ ret.prefer_meetings
    /\ Len(ret.results) >= 2
    /\ ret.results[1].dist > ret.results[2].dist
    /\ ret.value[1] = ret.results[2]

\* the chunk declares a validity window that ended before every day of the
\* model
OutOfWindow(meta) ==
    /\ "valid_to" \in DOMAIN meta
    /\ \A t \in Todays : LexLess(meta.valid_to, t)

DatedInside(meta, start, end) ==
    /\ parse_iso(meta.meeting_date) # NoDate
    /\ DtLeq(start, Midnight(meta.meeting_date))
    /\ DtLeq(Midnight(meta.meeting_date), end)

\* C16: search_in_date_window returns at most k chunks, each with a meeting
\* date inside the window; when the store holds no chunk dated inside the
\* window it returns the empty sequence and raises nothing
C16_WindowResults ==
    ret.op = "search_in_date_window" =>
        /\ ~ret.raised =>
              /\ Len(ret.value) <= ret.k
              /\ \A i \in 1..Len(ret.value) :
                    DatedInside(ret.value[i].meta, ret.start, ret.end)
        /\ Loaded /\ (\A v \in DOMAIN meta_file.content :
                         ~DatedInside(meta_file.content[v], ret.start, ret.end))
              => ~ret.raised /\ ret.value = <<>>

\* a windowed search that returned k chunks while the store holds more chunks
\* inside the window, and chunks outside it
C16_Witness ==
    /\ ret.op = "search_in_date_window" /\ ~ret.raised /\ Loaded
    /\ Len(ret.value) = ret.k
    /\ Cardinality({ v \in DOMAIN meta_file.content :
                       DatedInside(meta_file.content[v], ret.start, ret.end) }) > ret.k
    /\ \E v \in DOMAIN meta_file.content :
          ~DatedInside(meta_file.content[v], ret.start, ret.end)

\* C17: search and search_meetings return at most k results; search's are in
\* ascending order of distance; each result carries the metadata record stored
\* under its identifier
C17_AtMostK ==
    ret.op \in {"search", "search_meetings"} /\ ~ret.raised =>
        /\ Len(ret.value) <= ret.k
        /\ ret.op = "search" => AscendingDistance(ret.value)
        /\ \A i \in 1..Len(ret.value) :
              /\ ret.value[i].id \in DOMAIN meta_file.content
              /\ ret.value[i].meta = meta_file.content[ret.value[i].id]

\* C18: the string build_context returns is at most MAX_CONTEXT_CHARS long and
\* holds the snippets of a leading run of the hits, in rank order
C18_ContextWithinBudget ==
    ret.op = "build_context" =>
        /\ ret.value.length <= MAX_CONTEXT_CHARS
        /\ Len(ret.value.parts) <= Len(ret.topk)
        /\ \A i \in 1..Len(ret.value.parts) : ret.value.parts[i] = i

\* C22: the messages ask_gpt hands to the provider start with the system
\* instruction, end with the current query, with the sources attached exactly
\* when the context is not empty, and hold in between the last four turns of
\* the history (all of them when there are fewer), in their order
C22_MessagesKeepSystemAndQuery ==
    ret.op = "ask_gpt" =>
        LET n == Len(ret.chat_history)
            kept == IF n < 4 THEN n ELSE 4
            last == ret.value[Len(ret.value)]
        IN /\ Len(ret.value) = kept + 2
           /\ ret.value[1] = [role |-> "system", content |-> SYSTEM_PROMPT]
           /\ last.role = "user"
           /\ ret.context = "" => last.content = ret.query
           /\ ret.context # "" =>
                 last.content = "Query:\n" \o ret.query \o "\n\nSources:\n"
                                \o ret.context
           /\ \A i \in 1..kept :
                 LET turn == ret.chat_history[n - kept + i] IN
                 /\ ret.value[i + 1].role = turn.role
                 /\ ret.value[i + 1].content
                      = (IF turn.timestamp # ""
                         THEN "[" \o turn.timestamp \o "] " ELSE "")
                        \o turn.content

\* a call with more than four turns of history and a context: six messages
\* are handed over and the oldest turn is left out
C22_Witness ==
    /\ ret.op = "ask_gpt"
    /\ Len(ret.chat_history) > 4
    /\ ret.context # ""
    /\ Len(ret.value) = 6
    /\ ret.value[2].content = "[2025-09-02 10:00] m2"

\* the line opens a point: a numeral followed by whitespace
NumberedBullet(l) == l.num # <<>> /\ ~l.dot

\* the positions of the numbered bullets of a body, in order
BulletPositions(body) ==
    LET S == { i \in 1..Len(body) : NumberedBullet(body[i]) }
    IN SortedPlain([i \in 1..Len(body) |-> i],
                   [i \in 1..Len(body) |-> IF i \in S THEN i ELSE Len(body) + i])

\* the bullet line at position b of the body with the non-blank lines up to
\* the next bullet joined to it by spaces
PointText(body, b, next) ==
    JoinStr(SelectSeq([j \in 1..(next - b) |-> Render(body[b + j - 1])],
                      LAMBDA t : t # ""), " ")

\* C21: _lines_of_points returns one point per numbered bullet of the body, in
\* order, each its bullet line followed by the space-joined continuation lines
\* up to the next bullet, and no point that does not start with a numbered
\* bullet
C21_OnePointPerBullet ==
    ret.op = "lines_of_points" =>
        LET body == ret.body
            nb == Cardinality({ i \in 1..Len(body) : NumberedBullet(body[i]) })
            pos == BulletPositions(body)
        IN /\ Len(ret.value) = nb
           /\ \A i \in 1..Len(ret.value) : NumberedBullet(ret.value[i])
           /\ \A i \in 1..nb :
                 i <= Len(ret.value) =>
                 Render(ret.value[i])
                   = PointText(body, pos[i],
                               IF i < nb THEN pos[i + 1] ELSE Len(body) + 1)

====
